---- MODULE Spec2Model ----
(***************************************************************************)
(* A model of the terrain editor of lego-game: the OpenGL context state    *)
(* that Terrain, Heightmap, Brush and Gui drive, the GPU objects they      *)
(* create and delete, the height field texture that sculpting blends       *)
(* into, and the cursor that picking moves.                                *)
(*                                                                         *)
(* World coordinates are integers (world units).  A normalized coordinate  *)
(* (a value of [0,1]) is a fixed-point number with FX steps per 1.0.       *)
(* A float that may be +infinity is a record [inf, v].                     *)
(* The height field is followed at the texels of Samples.                  *)
(***************************************************************************)
EXTENDS Integers, Sequences, FiniteSets, TLC

VARIABLES
    gl,          \* the OpenGL context state
    objects,     \* the GL objects that exist: records [name, kind, attach]
    heightfield, \* storage of the heightmap texture: [name, size, len, texels]
    terrain,     \* the Terrain value: [state, ...fields]
    gui,         \* the Gui value
    result,      \* the last operation: its name, arguments and outcome
    calls,       \* the draw calls the last operation issued, with the GL state at each
    before       \* the texels before the last operation, and those before the
                 \* raise that a sculpt followed

vars == <<gl, objects, heightfield, terrain, gui, result, calls, before>>

----------------------------------------------------------------------------
(* Bounds of the model *)

\* delta_time is drawn from 0..MaxDeltaTime (in frame ticks)
MaxDeltaTime == 2
\* Gui::draw is given 0..MaxMeshes clipped meshes
MaxMeshes == 1
\* egui's font texture changes up to version MaxTextureVersion
MaxTextureVersion == 1

----------------------------------------------------------------------------
(* Floats that may be infinite *)

Fin(n) == [inf |-> FALSE, v |-> n]

\* f32::INFINITY
INFINITY == [inf |-> TRUE, v |-> 0]

\* a - b for b finite
FSub(a, b) == IF a.inf THEN INFINITY ELSE Fin(a.v - b)

\* a <= b for b finite
FLe(a, b) == (~a.inf) /\ a.v <= b

\* a >= b for b finite
FGe(a, b) == a.inf \/ a.v >= b

\* utils.rs: vec2_infinity
vec2_infinity == [x |-> INFINITY, y |-> INFINITY]

\* fixed-point steps per 1.0 of a normalized coordinate
FX == 1024

\* a / size as a normalized fixed-point number, for size finite and positive
FDiv(a, size) == IF a.inf THEN INFINITY ELSE Fin((a.v * FX) \div size)

----------------------------------------------------------------------------
(* The OpenGL context *)

WindowViewport == [kind |-> "window", w |-> 0, h |-> 0]

\* The context as Game::new leaves it: GL's initial values, the window's
\* viewport and the depth test enabled.
GLInit ==
    [ framebuffer      |-> 0,
      viewport         |-> WindowViewport,
      BLEND            |-> FALSE,
      DEPTH_TEST       |-> TRUE,
      CULL_FACE        |-> FALSE,
      FRAMEBUFFER_SRGB |-> FALSE,
      blend_src_rgb    |-> "ONE",
      blend_dst_rgb    |-> "ZERO",
      blend_src_alpha  |-> "ONE",
      blend_dst_alpha  |-> "ZERO",
      blend_equation   |-> "FUNC_ADD",
      active_texture   |-> 0,
      texture_2d       |-> [u \in 0..3 |-> 0],
      program          |-> "none",
      vertex_array     |-> 0,
      next_name        |-> 1 ]

BindFramebuffer(g, fbo) == [g EXCEPT !.framebuffer = fbo]

Viewport(g, w, h) == [g EXCEPT !.viewport = [kind |-> "px", w |-> w, h |-> h]]

ViewportWindow(g) == [g EXCEPT !.viewport = WindowViewport]

Enable(g, cap) == [g EXCEPT ![cap] = TRUE]

Disable(g, cap) == [g EXCEPT ![cap] = FALSE]

ActiveTexture(g, unit) == [g EXCEPT !.active_texture = unit]

BindTexture(g, texture) == [g EXCEPT !.texture_2d[g.active_texture] = texture]

BlendFunc(g, sfactor, dfactor) ==
    [g EXCEPT !.blend_src_rgb = sfactor, !.blend_dst_rgb = dfactor,
              !.blend_src_alpha = sfactor, !.blend_dst_alpha = dfactor]

BlendFuncSeparate(g, srgb, drgb, salpha, dalpha) ==
    [g EXCEPT !.blend_src_rgb = srgb, !.blend_dst_rgb = drgb,
              !.blend_src_alpha = salpha, !.blend_dst_alpha = dalpha]

BlendEquation(g, mode) == [g EXCEPT !.blend_equation = mode]

UseProgram(g, program) == [g EXCEPT !.program = program]

BindVertexArray(g, vao) == [g EXCEPT !.vertex_array = vao]

\* glCreate*: a fresh object name
NewName(g) == g.next_name

Created(g) == [g EXCEPT !.next_name = g.next_name + 1]

\* attach: the texture attached to a framebuffer object, 0 for none
Object(name, kind, attach) == [name |-> name, kind |-> kind, attach |-> attach]

\* glDelete*: the object is gone, and a texture leaves the units it was bound to
DeleteObject(objs, name) == {o \in objs : o.name # name}

UnbindDeleted(g, name) ==
    [g EXCEPT !.texture_2d = [u \in 0..3 |-> IF g.texture_2d[u] = name THEN 0 ELSE g.texture_2d[u]]]

\* the blend state and depth test of the context
BlendDepthState(g) ==
    [ BLEND |-> g.BLEND, DEPTH_TEST |-> g.DEPTH_TEST,
      src_rgb |-> g.blend_src_rgb, dst_rgb |-> g.blend_dst_rgb,
      src_alpha |-> g.blend_src_alpha, dst_alpha |-> g.blend_dst_alpha,
      equation |-> g.blend_equation ]

----------------------------------------------------------------------------
(* Images on disk and texture storage *)

\* the texels of the height field that the model follows
Samples == 1..2

\* normalized position (fixed-point u, v) of each followed texel
SamplePos(s) ==
    IF s = 1 THEN [u |-> 512, v |-> 512] ELSE [u |-> 768, v |-> 256]

\* gl::R16: a texel is an unsigned normalized 16-bit value
Max16 == 65535

Clamp16(x) == IF x < 0 THEN 0 ELSE IF x > Max16 THEN Max16 ELSE x

Image(w, h, px) == [exists |-> TRUE, w |-> w, h |-> h, px |-> px]

MissingImage == [exists |-> FALSE, w |-> 0, h |-> 0, px |-> [s \in Samples |-> 0]]

Uniform(v) == [s \in Samples |-> v]

\* heightmap images the model draws from
HeightmapImages ==
    { MissingImage,
      Image(2048, 2048, Uniform(Max16)),
      Image(4096, 4096, Uniform(Max16)),
      Image(512, 512, Uniform(0)),
      Image(2048, 1024, Uniform(0)) }

\* brush images the model draws from
BrushImages ==
    { MissingImage,
      Image(128, 128, Uniform(Max16)),
      Image(128, 64, Uniform(Max16)) }

\* ground (checkerboard) images the model draws from
GroundImages ==
    { MissingImage,
      Image(256, 256, Uniform(0)),
      Image(256, 128, Uniform(0)) }

\* the programs Terrain::new builds, in the order it builds them
Shaders == {"heightmap", "terrain", "shadow_map", "aabb", "normal"}

NoHeightfield == [name |-> 0, size |-> 0, len |-> 0, texels |-> Uniform(0)]

Some(v) == [some |-> TRUE, val |-> v]

NoPath == [some |-> FALSE, val |-> MissingImage]

NoSize == [some |-> FALSE, val |-> 0]

\* what a constructor leaves behind: its outcome, the context, the objects,
\* the height field storage and (when ok) the value it built
Built(outcome, g, objs, hf, value) ==
    [outcome |-> outcome, gl |-> g, objects |-> objs, heightfield |-> hf, value |-> value]

NoHeightmap == [texture |-> 0, texture_size |-> 0, fbo |-> 0, shader |-> "none"]

\* vec![0u16; size] : one row instead of size rows
ZeroPixels_OneRow(size) == [len |-> size, px |-> Uniform(0)]

\* vec![0u16; size * size]
ZeroPixels(size) == [len |-> size * size, px |-> Uniform(0)]

\* img.into_luma16().into_raw()
ImagePixels(img) == [len |-> img.w * img.h, px |-> img.px]

\* Heightmap::new from the texture creation on: texture, upload, framebuffer, shader
HeightmapCreate(g, objs, pixels, texture_size, bad) ==
    LET texture == NewName(g)
        g1 == BindTexture(Created(g), texture)
        hf == [name |-> texture, size |-> texture_size, len |-> pixels.len,
               texels |-> pixels.px]
        fbo == NewName(g1)
        g2 == Created(g1)
        objs2 == objs \cup {Object(texture, "texture", 0), Object(fbo, "framebuffer", texture)}
    IN  IF bad = "heightmap"
        THEN Built("err", g2, objs2, hf, NoHeightmap)
        ELSE Built("ok", g2, objs2, hf,
                   [texture |-> texture, texture_size |-> texture_size,
                    fbo |-> fbo, shader |-> "heightmap"])

SupportedSizes == {1024, 2048, 4096}

\* Heightmap::new without the assertion that the image is square
HeightmapNew_NoSquareCheck(g, objs, hf, dbg, path, texture_size, bad) ==
    IF dbg /\ (path.some = texture_size.some)
    THEN Built("panic", g, objs, hf, NoHeightmap)
    ELSE IF path.some
    THEN LET img == path.val
         IN  IF ~img.exists THEN Built("err", g, objs, hf, NoHeightmap)
             ELSE IF img.w \notin SupportedSizes THEN Built("panic", g, objs, hf, NoHeightmap)
             ELSE HeightmapCreate(g, objs, ImagePixels(img), img.w, bad)
    ELSE IF ~texture_size.some
    THEN Built("panic", g, objs, hf, NoHeightmap)
    ELSE HeightmapCreate(g, objs, ZeroPixels(texture_size.val), texture_size.val, bad)

\* Heightmap::new with the size assertion applied to the flat size too
HeightmapNew_FlatChecked(g, objs, hf, dbg, path, texture_size, bad) ==
    IF dbg /\ (path.some = texture_size.some)
    THEN Built("panic", g, objs, hf, NoHeightmap)
    ELSE IF path.some
    THEN LET img == path.val
         IN  IF ~img.exists THEN Built("err", g, objs, hf, NoHeightmap)
             ELSE IF img.w # img.h THEN Built("panic", g, objs, hf, NoHeightmap)
             ELSE IF img.w \notin SupportedSizes THEN Built("panic", g, objs, hf, NoHeightmap)
             ELSE HeightmapCreate(g, objs, ImagePixels(img), img.w, bad)
    ELSE IF ~texture_size.some
    THEN Built("panic", g, objs, hf, NoHeightmap)
    ELSE IF texture_size.val \notin SupportedSizes
    THEN Built("panic", g, objs, hf, NoHeightmap)
    ELSE HeightmapCreate(g, objs, ZeroPixels(texture_size.val), texture_size.val, bad)

\* Heightmap::new
HeightmapNew(g, objs, hf, dbg, path, texture_size, bad) ==
    IF dbg /\ (path.some = texture_size.some)
    THEN Built("panic", g, objs, hf, NoHeightmap)
    ELSE IF path.some
    THEN LET img == path.val
         IN  IF ~img.exists THEN Built("err", g, objs, hf, NoHeightmap)
             ELSE IF img.w # img.h THEN Built("panic", g, objs, hf, NoHeightmap)
             ELSE IF img.w \notin SupportedSizes THEN Built("panic", g, objs, hf, NoHeightmap)
             ELSE HeightmapCreate(g, objs, ImagePixels(img), img.w, bad)
    ELSE IF ~texture_size.some
    THEN Built("panic", g, objs, hf, NoHeightmap)
    ELSE HeightmapCreate(g, objs, ZeroPixels(texture_size.val), texture_size.val, bad)

\* Heightmap::flat
HeightmapFlat(g, objs, hf, dbg, texture_size, bad) ==
    HeightmapNew(g, objs, hf, dbg, NoPath, Some(texture_size), bad)

\* Heightmap::from_image
HeightmapFromImage(g, objs, hf, dbg, img, bad) ==
    HeightmapNew(g, objs, hf, dbg, Some(img), NoSize, bad)

NoBrush == [texture |-> 0, texture_size |-> 0, size |-> 0, texels |-> 0]

\* Brush::new returning an error for an image that cannot be opened
BrushNew_Err(g, objs, hf, img, size) ==
    IF ~img.exists THEN Built("err", g, objs, hf, NoBrush)
    ELSE IF img.w # img.h THEN Built("panic", g, objs, hf, NoBrush)
    ELSE LET texture == NewName(g)
         IN  Built("ok", Created(g), objs \cup {Object(texture, "texture", 0)}, hf,
                   [texture |-> texture, texture_size |-> img.w, size |-> size,
                    texels |-> img.px[1]])

\* Brush::new; texels is the storage of the brush texture (its luma)
BrushNew(g, objs, hf, img, size) ==
    IF ~img.exists THEN Built("panic", g, objs, hf, NoBrush)
    ELSE IF img.w # img.h THEN Built("panic", g, objs, hf, NoBrush)
    ELSE LET texture == NewName(g)
         IN  Built("ok", Created(g), objs \cup {Object(texture, "texture", 0)}, hf,
                   [texture |-> texture, texture_size |-> img.w, size |-> size,
                    texels |-> img.px[1]])

----------------------------------------------------------------------------
(* Terrain::new *)

NoTerrain == [state |-> "none"]

\* Terrain::new up to and including the ground texture: the center assertion,
\* the vertex array, the checkerboard image
TerrainNewGround(g, objs, hf, center, ground) ==
    IF center # [x |-> 0, y |-> 0] THEN Built("panic", g, objs, hf, [vao |-> 0, texture |-> 0])
    ELSE LET vao == NewName(g)
             g1 == Created(g)
             objs1 == objs \cup {Object(vao, "vertex_array", 0)}
         IN  IF ~ground.exists THEN Built("panic", g1, objs1, hf, [vao |-> vao, texture |-> 0])
             ELSE IF ground.w # ground.h
             THEN Built("panic", g1, objs1, hf, [vao |-> vao, texture |-> 0])
             ELSE LET texture == NewName(g1)
                  IN  Built("ok", Created(g1), objs1 \cup {Object(texture, "texture", 0)}, hf,
                            [vao |-> vao, texture |-> texture])

\* Terrain::new: the heightmap, flat or from the image
TerrainNewHeightmap(g, objs, hf, dbg, start_flat, heightmap_path, bad) ==
    IF start_flat
    THEN HeightmapFlat(g, objs, hf, dbg, 1024, bad)
    ELSE HeightmapFromImage(g, objs, hf, dbg, heightmap_path, bad)

\* Terrain::new: the shadow map framebuffer and texture
ShadowMapCreate(g, objs) ==
    LET shadow_map_fbo == NewName(g)
        shadow_map == NewName(Created(g))
    IN  [gl |-> Created(Created(g)),
         objects |-> objs \cup {Object(shadow_map_fbo, "framebuffer", shadow_map),
                                Object(shadow_map, "texture", 0)},
         shadow_map_fbo |-> shadow_map_fbo, shadow_map |-> shadow_map]

\* Terrain::new from the terrain shader on: the programs, the shadow map, the value
TerrainNewRest(g, objs, hf, center, ground, heightmap, brush, bad) ==
    IF bad = "terrain" THEN Built("err", g, objs, hf, NoTerrain)
    ELSE LET sm == ShadowMapCreate(UseProgram(g, "terrain"), objs)
         IN  IF bad = "shadow_map" THEN Built("err", sm.gl, sm.objects, hf, NoTerrain)
             ELSE IF bad = "aabb"
             THEN Built("err", UseProgram(sm.gl, "shadow_map"), sm.objects, hf, NoTerrain)
             ELSE IF bad = "normal"
             THEN Built("err", UseProgram(sm.gl, "aabb"), sm.objects, hf, NoTerrain)
             ELSE Built("ok", UseProgram(sm.gl, "normal"), sm.objects, hf,
                        [ state |-> "alive",
                          aabb |-> [min |-> [x |-> -((16 * 64) \div 2), y |-> 0,
                                             z |-> -((16 * 64) \div 2)],
                                    max |-> [x |-> (16 * 64) \div 2, y |-> 200,
                                             z |-> (16 * 64) \div 2]],
                          vao |-> ground.vao,
                          shader |-> "terrain",
                          tess_level |-> 11,
                          texture |-> ground.texture,
                          heightmap |-> heightmap,
                          cursor |-> vec2_infinity,
                          brush |-> brush,
                          shadow_map_fbo |-> sm.shadow_map_fbo,
                          shadow_map |-> sm.shadow_map,
                          shadow_map_size |-> 2048,
                          shadow_map_shader |-> "shadow_map",
                          center |-> center,
                          max_height |-> 200,
                          num_patches |-> 64,
                          patch_size |-> 16 ])

\* Terrain::new
TerrainNew(g, objs, hf, dbg, center, start_flat, heightmap_path, brush_img, ground_img, bad) ==
    LET gr == TerrainNewGround(g, objs, hf, center, ground_img)
    IN  IF gr.outcome # "ok" THEN Built(gr.outcome, gr.gl, gr.objects, hf, NoTerrain)
        ELSE
        LET hm == TerrainNewHeightmap(gr.gl, gr.objects, hf, dbg, start_flat, heightmap_path, bad)
        IN  IF hm.outcome # "ok"
            THEN Built(hm.outcome, hm.gl, hm.objects, hm.heightfield, NoTerrain)
            ELSE
            LET br == BrushNew(hm.gl, hm.objects, hm.heightfield, brush_img, 100)
            IN  IF br.outcome # "ok"
                THEN Built(br.outcome, br.gl, br.objects, br.heightfield, NoTerrain)
                ELSE TerrainNewRest(br.gl, br.objects, br.heightfield, center,
                                    gr.value, hm.value, br.value, bad)

----------------------------------------------------------------------------
(* Sculpting: Heightmap::draw_on_heightmap and Terrain::shape_terrain *)

Abs(x) == IF x < 0 THEN -x ELSE x

\* heightmap.vert / heightmap.frag: the quad covers the whole target; a texel
\* within half a brush_size of the cursor on both axes samples the brush, any
\* other samples its border (0); the output is the sample scaled by delta_time.
\* A cursor that is not finite leaves the output unspecified (undef).
FragmentOut(s, cursor, brush_size, brush, delta_time, undef) ==
    IF cursor.x.inf \/ cursor.y.inf
    THEN (IF undef THEN brush.texels * delta_time ELSE 0)
    ELSE IF /\ 2 * Abs(SamplePos(s).u - cursor.x.v) <= brush_size
            /\ 2 * Abs(SamplePos(s).v - cursor.y.v) <= brush_size
         THEN brush.texels * delta_time
         ELSE 0

\* a blend factor applied to a colour; the alpha of source and target is 1
Factor(f, colour) == IF f = "ONE" THEN colour ELSE 0

\* the value written to a 16-bit normalized target texel
BlendTexel(g, src, dst) ==
    IF ~g.BLEND THEN Clamp16(src)
    ELSE LET S == Factor(g.blend_src_rgb, Clamp16(src))
             D == Factor(g.blend_dst_rgb, dst)
         IN  Clamp16(CASE g.blend_equation = "FUNC_ADD" -> S + D
                       [] g.blend_equation = "FUNC_SUBTRACT" -> S - D
                       [] OTHER -> D - S)

\* the draw call's target: the texture attached to the bound framebuffer
DrawTarget(g, objs) ==
    IF \E o \in objs : o.name = g.framebuffer /\ o.kind = "framebuffer"
    THEN (CHOOSE o \in objs : o.name = g.framebuffer /\ o.kind = "framebuffer").attach
    ELSE 0

\* gl::DrawArrays(TRIANGLE_FAN, 0, 4) with the heightmap program in use
DrawArraysSculpt(g, objs, hf, cursor, brush_size, brush, delta_time, undef) ==
    IF hf.name # 0 /\ DrawTarget(g, objs) = hf.name
    THEN [hf EXCEPT !.texels =
            [s \in Samples |->
                BlendTexel(g, FragmentOut(s, cursor, brush_size, brush, delta_time, undef),
                           hf.texels[s])]]
    ELSE hf

\* a draw call as the log keeps it
Call(name, g, instances, tess_level) ==
    [call |-> name, gl |-> g, instances |-> instances, tess_level |-> tess_level]

\* draw_on_heightmap lowering with FUNC_SUBTRACT (source minus target)
SculptDrawState_Subtract(g, hm, brush, raise) ==
    LET g1 == BindFramebuffer(g, hm.fbo)
        g2 == Disable(g1, "FRAMEBUFFER_SRGB")
        g3 == Viewport(g2, hm.texture_size, hm.texture_size)
        g4 == BindTexture(ActiveTexture(g3, 0), brush.texture)
        g5 == Disable(Enable(g4, "BLEND"), "DEPTH_TEST")
        g6 == BlendFunc(g5, "ONE", "ONE")
    IN  BlendEquation(g6, IF raise THEN "FUNC_ADD" ELSE "FUNC_SUBTRACT")

\* draw_on_heightmap blending with BlendFunc(ONE, ZERO): the target is replaced
SculptDrawState_Replace(g, hm, brush, raise) ==
    LET g1 == BindFramebuffer(g, hm.fbo)
        g2 == Disable(g1, "FRAMEBUFFER_SRGB")
        g3 == Viewport(g2, hm.texture_size, hm.texture_size)
        g4 == BindTexture(ActiveTexture(g3, 0), brush.texture)
        g5 == Disable(Enable(g4, "BLEND"), "DEPTH_TEST")
        g6 == BlendFunc(g5, "ONE", "ZERO")
    IN  BlendEquation(g6, IF raise THEN "FUNC_ADD" ELSE "FUNC_REVERSE_SUBTRACT")

\* draw_on_heightmap: the state it sets for its draw (lines 129-144)
SculptDrawState(g, hm, brush, raise) ==
    LET g1 == BindFramebuffer(g, hm.fbo)
        g2 == Disable(g1, "FRAMEBUFFER_SRGB")
        g3 == Viewport(g2, hm.texture_size, hm.texture_size)
        g4 == BindTexture(ActiveTexture(g3, 0), brush.texture)
        g5 == Disable(Enable(g4, "BLEND"), "DEPTH_TEST")
        g6 == BlendFunc(g5, "ONE", "ONE")
    IN  BlendEquation(g6, IF raise THEN "FUNC_ADD" ELSE "FUNC_REVERSE_SUBTRACT")

\* draw_on_heightmap leaving the blend equation of its draw
SculptReset_KeepEquation(g) ==
    LET g1 == Enable(Disable(g, "BLEND"), "DEPTH_TEST")
        g3 == Enable(g1, "FRAMEBUFFER_SRGB")
    IN  ViewportWindow(BindFramebuffer(g3, 0))

\* draw_on_heightmap: "Reset everything back" (lines 149-155)
SculptReset(g) ==
    LET g1 == Enable(Disable(g, "BLEND"), "DEPTH_TEST")
        g2 == BlendEquation(g1, "FUNC_ADD")
        g3 == Enable(g2, "FRAMEBUFFER_SRGB")
    IN  ViewportWindow(BindFramebuffer(g3, 0))

\* the debug assertions of draw_on_heightmap on the normalized cursor
CursorInUnitSquare(cursor) ==
    /\ FLe(cursor.x, FX) /\ FGe(cursor.x, 0) /\ ~cursor.x.inf
    /\ FLe(cursor.y, FX) /\ FGe(cursor.y, 0) /\ ~cursor.y.inf

\* Heightmap::draw_on_heightmap
draw_on_heightmap(g, objs, hf, dbg, hm, cursor, brush, terrain_size, delta_time, raise, undef) ==
    LET g0 == UseProgram(g, hm.shader)
    IN  IF dbg /\ ~CursorInUnitSquare(cursor)
        THEN [outcome |-> "panic", gl |-> g0, heightfield |-> hf, calls |-> <<>>]
        ELSE LET brush_size == (brush.size * FX) \div terrain_size
                 gd == SculptDrawState(g0, hm, brush, raise)
                 hf1 == DrawArraysSculpt(gd, objs, hf, cursor, brush_size, brush,
                                         delta_time, undef)
             IN  [outcome |-> "ok", gl |-> SculptReset(gd), heightfield |-> hf1,
                  calls |-> <<Call("DrawArrays", gd, 1, 0)>>]

\* Terrain::size
TerrainSize(t) == t.aabb.max.x - t.aabb.min.x

\* shape_terrain treating the hidden cursor as the terrain's corner
NormalizedCursor_HiddenAsCorner(t) ==
    IF t.cursor = vec2_infinity THEN [x |-> Fin(0), y |-> Fin(0)]
    ELSE [x |-> FDiv(FSub(t.cursor.x, t.aabb.min.x), t.aabb.max.x - t.aabb.min.x),
          y |-> FDiv(FSub(t.cursor.y, t.aabb.min.z), t.aabb.max.x - t.aabb.min.x)]

\* shape_terrain measuring the cursor from the terrain's center
NormalizedCursor_FromCenter(t) ==
    [x |-> FDiv(t.cursor.x, TerrainSize(t)),
     y |-> FDiv(t.cursor.y, TerrainSize(t))]

\* shape_terrain: the cursor as a normalized heightmap coordinate
NormalizedCursor(t) ==
    [x |-> FDiv(FSub(t.cursor.x, t.aabb.min.x), TerrainSize(t)),
     y |-> FDiv(FSub(t.cursor.y, t.aabb.min.z), TerrainSize(t))]

\* Terrain::shape_terrain
shape_terrain(g, objs, hf, dbg, t, delta_time, raise, undef) ==
    draw_on_heightmap(g, objs, hf, dbg, t.heightmap, NormalizedCursor(t), t.brush,
                      TerrainSize(t), delta_time, raise, undef)

----------------------------------------------------------------------------
(* Terrain::draw, get_heightmap_pixels and Drop *)

\* draw leaving unit 0 as it finds it
DrawCommonState_SkipUnit0(g, t) ==
    LET g1 == BindVertexArray(g, t.vao)
        g3 == BindTexture(ActiveTexture(g1, 1), t.heightmap.texture)
        g4 == BindTexture(ActiveTexture(g3, 2), t.brush.texture)
    IN  BindTexture(ActiveTexture(g4, 3), t.shadow_map)

\* draw: the state common to both passes (lines 430-449)
DrawCommonState(g, t) ==
    LET g1 == BindVertexArray(g, t.vao)
        g2 == BindTexture(ActiveTexture(g1, 0), t.texture)
        g3 == BindTexture(ActiveTexture(g2, 1), t.heightmap.texture)
        g4 == BindTexture(ActiveTexture(g3, 2), t.brush.texture)
    IN  BindTexture(ActiveTexture(g4, 3), t.shadow_map)

\* draw rendering its shadow pass into the heightmap's framebuffer
DrawShadowState_HeightmapFbo(g, t) ==
    LET g1 == UseProgram(g, t.shadow_map_shader)
        g2 == BindFramebuffer(g1, t.heightmap.fbo)
    IN  Viewport(g2, t.shadow_map_size, t.shadow_map_size)

\* draw: the state of the shadow pass (lines 452-458)
DrawShadowState(g, t) ==
    LET g1 == UseProgram(g, t.shadow_map_shader)
        g2 == BindFramebuffer(g1, t.shadow_map_fbo)
    IN  Viewport(g2, t.shadow_map_size, t.shadow_map_size)

\* draw going on to the main pass without the default framebuffer
DrawMainState_NoRebind(g, t) ==
    UseProgram(ViewportWindow(g), t.shader)

\* draw: back to the window after the shadow pass, the main pass's program
DrawMainState(g, t) ==
    UseProgram(BindFramebuffer(ViewportWindow(g), 0), t.shader)

\* gl::DrawArraysInstanced(PATCHES, 0, 4, n) with a terrain program in use: the
\* patches cover the target, and a target that is the height field's texture
\* is written over
DrawArraysInstanced(g, objs, hf) ==
    IF hf.name # 0 /\ DrawTarget(g, objs) = hf.name
    THEN [hf EXCEPT !.texels = [s \in Samples |-> BlendTexel(g, Max16, hf.texels[s])]]
    ELSE hf

\* Terrain::draw with one row of patches in the shadow pass
terrain_draw_ShadowRow(g, objs, hf, t) ==
    LET gc == DrawCommonState(g, t)
        gs == DrawShadowState(gc, t)
        gm == DrawMainState(gs, t)
    IN  [outcome |-> "ok", gl |-> gm,
         heightfield |-> DrawArraysInstanced(gm, objs, DrawArraysInstanced(gs, objs, hf)),
         calls |-> << Call("Clear", gs, 0, t.tess_level),
                      Call("DrawArraysInstanced", gs, 64, t.tess_level),
                      Call("DrawArraysInstanced", gm, 64 * 64, t.tess_level) >>]

\* Terrain::draw
terrain_draw(g, objs, hf, t) ==
    LET gc == DrawCommonState(g, t)
        gs == DrawShadowState(gc, t)
        gm == DrawMainState(gs, t)
    IN  [outcome |-> "ok", gl |-> gm,
         heightfield |-> DrawArraysInstanced(gm, objs, DrawArraysInstanced(gs, objs, hf)),
         calls |-> << Call("Clear", gs, 0, t.tess_level),
                      Call("DrawArraysInstanced", gs, 64 * 64, t.tess_level),
                      Call("DrawArraysInstanced", gm, 64 * 64, t.tess_level) >>]

\* Terrain::get_heightmap_pixels with one byte for a texel
get_heightmap_pixels_OneByte(t, hf) ==
    LET buffer_size == t.heightmap.texture_size * t.heightmap.texture_size
    IN  [bytes |-> buffer_size, texels |-> hf.texels, side |-> t.heightmap.texture_size]

\* Terrain::get_heightmap_pixels: the buffer's length in bytes, the texels
\* read back, the side length
get_heightmap_pixels(t, hf) ==
    LET buffer_size == t.heightmap.texture_size * t.heightmap.texture_size * 2
    IN  [bytes |-> buffer_size, texels |-> hf.texels, side |-> t.heightmap.texture_size]

\* Drop for Terrain
terrain_drop(g, objs, t) ==
    LET g1 == IF g.vertex_array = t.vao THEN BindVertexArray(g, 0) ELSE g
    IN  [gl |-> UnbindDeleted(g1, t.texture),
         objects |-> DeleteObject(DeleteObject(objs, t.vao), t.texture)]

----------------------------------------------------------------------------
(* Picking: Ray, AABB, intersect_with_ray, move_cursor, hide_cursor *)

Vec3(x, y, z) == [x |-> x, y |-> y, z |-> z]

Ray(origin, direction) == [origin |-> origin, direction |-> direction]

\* the rays the model draws from; every direction component is -1, 0 or 1
Rays ==
    { Ray(Vec3(0, 300, 0), Vec3(0, -1, 0)),          \* straight down onto the center
      Ray(Vec3(0, 300, 0), Vec3(1, -1, 0)),          \* down onto (300, 0)
      Ray(Vec3(-212, 300, -212), Vec3(-1, -1, -1)),  \* down into the corner (-512, -512)
      Ray(Vec3(0, 100, 0), Vec3(1, 0, 0)),           \* level: leaves by a side face
      Ray(Vec3(0, 100, 0), Vec3(0, 1, 0)),           \* up: leaves by the top face
      Ray(Vec3(600, 100, 0), Vec3(1, 0, 0)),         \* beside the box, pointing away
      Ray(Vec3(600, 300, 0), Vec3(0, -1, 0)) }       \* beside the box, straight down

\* one slab of the slab method: the interval of t in which the ray is between lo and hi
Slab(o, d, lo, hi) ==
    LET big == 1000000
    IN  IF d = 0
        THEN (IF o >= lo /\ o <= hi THEN [near |-> -big, far |-> big]
                                    ELSE [near |-> big, far |-> -big])
        ELSE IF d > 0
        THEN [near |-> (lo - o) \div d, far |-> (hi - o) \div d]
        ELSE [near |-> (o - hi) \div (-d), far |-> (o - lo) \div (-d)]

Max2(a, b) == IF a >= b THEN a ELSE b

Min2(a, b) == IF a <= b THEN a ELSE b

\* Ray::hits_aabb: the near and far parameters, or none when disjoint
hits_aabb(ray, aabb) ==
    LET sx == Slab(ray.origin.x, ray.direction.x, aabb.min.x, aabb.max.x)
        sy == Slab(ray.origin.y, ray.direction.y, aabb.min.y, aabb.max.y)
        sz == Slab(ray.origin.z, ray.direction.z, aabb.min.z, aabb.max.z)
        t_min == Max2(sx.near, Max2(sy.near, sz.near))
        t_max == Min2(sx.far, Min2(sy.far, sz.far))
    IN  [some |-> t_max >= t_min /\ t_max >= 0, t_min |-> t_min, t_max |-> t_max]

\* Ray::get_point_at
get_point_at(ray, t) ==
    Vec3(ray.origin.x + ray.direction.x * t,
         ray.origin.y + ray.direction.y * t,
         ray.origin.z + ray.direction.z * t)

\* the error of evaluating origin + direction * t in f32. It is followed only
\* where it can take the point out of the box: a far point on the XZ boundary
\* of the box may overshoot it by one step
Roundings(t, ray) ==
    LET hit == hits_aabb(ray, t.aabb)
        p == get_point_at(ray, hit.t_max)
        ox == IF p.x = t.aabb.min.x THEN -1 ELSE IF p.x = t.aabb.max.x THEN 1 ELSE 0
        oz == IF p.z = t.aabb.min.z THEN -1 ELSE IF p.z = t.aabb.max.z THEN 1 ELSE 0
    IN  {Vec3(0, 0, 0)} \cup (IF hit.some THEN {Vec3(ox, 0, oz)} ELSE {})

\* the point as f32 arithmetic gives it
Rounded(p, round) == Vec3(p.x + round.x, p.y + round.y, p.z + round.z)

\* Terrain::intersect_with_ray accepting the far point on any face
intersect_with_ray_AnyFace(t, ray, round) ==
    LET hit == hits_aabb(ray, t.aabb)
    IN  IF ~hit.some THEN [some |-> FALSE, point |-> Vec3(0, 0, 0)]
        ELSE [some |-> TRUE, point |-> Rounded(get_point_at(ray, hit.t_max), round)]

\* Terrain::intersect_with_ray; EPSILON is 0.001, so the comparison is in thousandths
intersect_with_ray(t, ray, round) ==
    LET hit == hits_aabb(ray, t.aabb)
    IN  IF ~hit.some THEN [some |-> FALSE, point |-> Vec3(0, 0, 0)]
        ELSE LET point == Rounded(get_point_at(ray, hit.t_max), round)
             IN  IF (point.y - t.aabb.min.y) * 1000 > 1
                 THEN [some |-> FALSE, point |-> point]
                 ELSE [some |-> TRUE, point |-> point]

ClampInt(x, lo, hi) == Max2(lo, Min2(x, hi))

\* Terrain::hide_cursor
hide_cursor(t) == [t EXCEPT !.cursor = vec2_infinity]

\* Terrain::move_cursor leaving the cursor where it was on a miss
move_cursor_KeepOnMiss(t, ray, round) ==
    LET hit == intersect_with_ray(t, ray, round)
    IN  IF hit.some
        THEN [terrain |-> [t EXCEPT !.cursor =
                              [x |-> Fin(ClampInt(hit.point.x, t.aabb.min.x, t.aabb.max.x)),
                               y |-> Fin(ClampInt(hit.point.z, t.aabb.min.z, t.aabb.max.z))]],
              ret |-> TRUE, point |-> hit.point]
        ELSE [terrain |-> t, ret |-> FALSE, point |-> hit.point]

\* Terrain::move_cursor storing the point as it is, without the clamp
move_cursor_NoClamp(t, ray, round) ==
    LET hit == intersect_with_ray(t, ray, round)
    IN  IF hit.some
        THEN [terrain |-> [t EXCEPT !.cursor = [x |-> Fin(hit.point.x), y |-> Fin(hit.point.z)]],
              ret |-> TRUE, point |-> hit.point]
        ELSE [terrain |-> hide_cursor(t), ret |-> FALSE, point |-> hit.point]

\* Terrain::move_cursor: the terrain after it, the value returned and the
\* point intersect_with_ray computed
move_cursor(t, ray, round) ==
    LET hit == intersect_with_ray(t, ray, round)
    IN  IF hit.some
        THEN [terrain |-> [t EXCEPT !.cursor =
                              [x |-> Fin(ClampInt(hit.point.x, t.aabb.min.x, t.aabb.max.x)),
                               y |-> Fin(ClampInt(hit.point.z, t.aabb.min.z, t.aabb.max.z))]],
              ret |-> TRUE, point |-> hit.point]
        ELSE [terrain |-> hide_cursor(t), ret |-> FALSE, point |-> hit.point]

----------------------------------------------------------------------------
(* The GUI overlay *)

\* Gui::new: vertex array and two buffers
gui_new(g, objs) ==
    LET vao == NewName(g)
        vbo == NewName(Created(g))
        ebo == NewName(Created(Created(g)))
    IN  [gl |-> Created(Created(Created(g))),
         objects |-> objs \cup {Object(vao, "vertex_array", 0), Object(vbo, "buffer", 0),
                                Object(ebo, "buffer", 0)},
         value |-> [egui_texture |-> 0, egui_texture_version |-> 0, shader |-> "gui",
                    vao |-> vao, vbo |-> vbo, ebo |-> ebo]]

\* Gui::upload_egui_texture; version 0 stands for None
upload_egui_texture(g, objs, ui, version) ==
    IF ui.egui_texture_version = version
    THEN [gl |-> g, objects |-> objs, value |-> ui]
    ELSE LET objs1 == IF ui.egui_texture # 0 THEN DeleteObject(objs, ui.egui_texture) ELSE objs
             g1 == IF ui.egui_texture # 0 THEN UnbindDeleted(g, ui.egui_texture) ELSE g
             new_texture == NewName(g1)
         IN  [gl |-> Created(g1),
              objects |-> objs1 \cup {Object(new_texture, "texture", 0)},
              value |-> [ui EXCEPT !.egui_texture = new_texture,
                                   !.egui_texture_version = version]]

\* Gui::draw: the state set for a mesh's draw (lines 191-200)
GuiMeshState(g, ui) ==
    LET g1 == BindVertexArray(g, ui.vao)
        g2 == Disable(Disable(g1, "DEPTH_TEST"), "CULL_FACE")
        g3 == Enable(g2, "BLEND")
    IN  BlendFuncSeparate(g3, "ONE", "ONE_MINUS_SRC_ALPHA", "ONE_MINUS_DST_ALPHA", "ONE")

\* Gui::draw: the state after a mesh's draw (lines 209-211)
GuiMeshDone(g) == Enable(Enable(Disable(g, "BLEND"), "DEPTH_TEST"), "CULL_FACE")

RECURSIVE GuiMeshes(_, _, _)
\* Gui::draw: the loop over the clipped meshes
GuiMeshes(g, ui, n) ==
    IF n = 0 THEN [gl |-> g, calls |-> <<>>]
    ELSE LET gd == GuiMeshState(g, ui)
             rest == GuiMeshes(GuiMeshDone(gd), ui, n - 1)
         IN  [gl |-> rest.gl, calls |-> <<Call("DrawElements", gd, 1, 0)>> \o rest.calls]

\* Gui::draw
gui_draw(g, objs, ui, version, meshes) ==
    LET up == upload_egui_texture(g, objs, ui, version)
        g1 == UseProgram(up.gl, up.value.shader)
        g2 == BindTexture(ActiveTexture(g1, 0), up.value.egui_texture)
        done == GuiMeshes(g2, up.value, meshes)
    IN  [gl |-> done.gl, objects |-> up.objects, value |-> up.value, calls |-> done.calls]

----------------------------------------------------------------------------
(* The editor: one Terrain and the Gui in one GL context *)

Centers == {[x |-> 0, y |-> 0], [x |-> 1, y |-> 0]}

\* debug_assert! is compiled in (a debug build) or out (a release build); the
\* two builds differ only at a failing assertion, where each operation draws it
Builds == BOOLEAN

\* the builds to tell apart at an assertion: one when it holds
BuildsAt(holds) == IF holds THEN {FALSE} ELSE Builds

\* the outcomes of a draw whose cursor uniform is not finite: the GL leaves
\* the result unspecified, the fragments are written or not
UnspecifiedAt(cursor) == IF cursor.x.inf \/ cursor.y.inf THEN BOOLEAN ELSE {FALSE}

Alive == terrain.state = "alive"

\* the last operation was a raise that completed
Raised == result.op = "shape_terrain" /\ result.outcome = "ok" /\ result.raise

\* before keeps the texels the operation started from
Remember ==
    before' = [texels |-> heightfield.texels, raised |-> -1,
               texels2 |-> heightfield.texels]

\* a sculpt also keeps the delta_time of the raise it follows (-1: it follows
\* none) and the texels that raise started from
RememberSculpt ==
    before' = [texels |-> heightfield.texels,
               raised |-> IF Raised THEN result.delta_time ELSE -1,
               texels2 |-> IF Raised THEN before.texels ELSE heightfield.texels]

Init ==
    LET ui == gui_new(GLInit, {})
    IN  /\ gl = ui.gl
        /\ objects = ui.objects
        /\ gui = ui.value
        /\ heightfield = NoHeightfield
        /\ terrain = NoTerrain
        /\ result = [op |-> "init", outcome |-> "ok"]
        /\ calls = <<>>
        /\ before = [texels |-> Uniform(0), raised |-> -1, texels2 |-> Uniform(0)]

\* the editor constructs the Terrain
NewTerrain ==
    /\ terrain.state = "none"
    /\ \E center \in Centers, start_flat \in BOOLEAN, heightmap_path \in HeightmapImages,
          brush_path \in BrushImages, ground_path \in GroundImages,
          bad \in Shaders \cup {"none"}, dbg \in Builds :
          LET b == TerrainNew(gl, objects, heightfield, dbg, center, start_flat,
                              heightmap_path, brush_path, ground_path, bad)
          IN  /\ gl' = b.gl
              /\ objects' = b.objects
              /\ heightfield' = b.heightfield
              /\ terrain' = IF b.outcome = "ok" THEN b.value
                            ELSE IF b.outcome = "err" THEN [state |-> "failed"]
                            ELSE [state |-> "aborted"]
              /\ result' = [op |-> "new", outcome |-> b.outcome, center |-> center,
                            start_flat |-> start_flat, heightmap_path |-> heightmap_path,
                            brush_path |-> brush_path, ground_path |-> ground_path,
                            bad |-> bad, dbg |-> dbg]
    /\ calls' = <<>>
    /\ Remember
    /\ UNCHANGED gui

\* a frame's Terrain::draw
Draw ==
    /\ Alive
    /\ LET d == terrain_draw(gl, objects, heightfield, terrain)
       IN  /\ gl' = d.gl
           /\ heightfield' = d.heightfield
           /\ calls' = d.calls
           /\ result' = [op |-> "draw", outcome |-> d.outcome,
                         unit0 |-> gl.texture_2d[0]]
    /\ Remember
    /\ UNCHANGED <<objects, terrain, gui>>

\* the editor sculpts: Terrain::shape_terrain
ShapeTerrain ==
    /\ Alive
    /\ \E delta_time \in 0..MaxDeltaTime, raise \in BOOLEAN,
          dbg \in BuildsAt(CursorInUnitSquare(NormalizedCursor(terrain))),
          undef \in UnspecifiedAt(NormalizedCursor(terrain)) :
          LET r == shape_terrain(gl, objects, heightfield, dbg, terrain,
                                 delta_time, raise, undef)
          IN  /\ gl' = r.gl
              /\ heightfield' = r.heightfield
              /\ calls' = r.calls
              /\ terrain' = IF r.outcome = "panic"
                            THEN [terrain EXCEPT !.state = "panicked"] ELSE terrain
              /\ result' = [op |-> "shape_terrain", outcome |-> r.outcome,
                            delta_time |-> delta_time, raise |-> raise, dbg |-> dbg]
    /\ Remember
    /\ UNCHANGED <<objects, gui>>

\* picking: Terrain::move_cursor
MoveCursor ==
    /\ Alive
    /\ \E ray \in Rays :
       \E round \in Roundings(terrain, ray) :
          LET m == move_cursor(terrain, ray, round)
          IN  /\ terrain' = m.terrain
              /\ result' = [op |-> "move_cursor", outcome |-> "ok", ray |-> ray,
                            ret |-> m.ret, point |-> m.point,
                            was_hidden |-> terrain.cursor = vec2_infinity]
    /\ calls' = <<>>
    /\ Remember
    /\ UNCHANGED <<gl, objects, heightfield, gui>>

\* Terrain::hide_cursor
HideCursor ==
    /\ Alive
    /\ terrain' = hide_cursor(terrain)
    /\ result' = [op |-> "hide_cursor", outcome |-> "ok",
                  was_hidden |-> terrain.cursor = vec2_infinity]
    /\ calls' = <<>>
    /\ Remember
    /\ UNCHANGED <<gl, objects, heightfield, gui>>

\* export: Terrain::get_heightmap_pixels
GetHeightmapPixels ==
    /\ Alive
    /\ result' = [op |-> "get_heightmap_pixels", outcome |-> "ok",
                  ret |-> get_heightmap_pixels(terrain, heightfield)]
    /\ calls' = <<>>
    /\ Remember
    /\ UNCHANGED <<gl, objects, heightfield, terrain, gui>>

\* a frame's Gui::draw; egui's font texture version only grows
GuiDraw ==
    /\ Alive
    /\ \E meshes \in 0..MaxMeshes,
          version \in {v \in 1..MaxTextureVersion : v >= gui.egui_texture_version} :
          LET d == gui_draw(gl, objects, gui, version, meshes)
          IN  /\ gl' = d.gl
              /\ objects' = d.objects
              /\ gui' = d.value
              /\ calls' = d.calls
              /\ result' = [op |-> "gui_draw", outcome |-> "ok", meshes |-> meshes]
    /\ Remember
    /\ UNCHANGED <<heightfield, terrain>>

\* the Terrain goes out of scope, at exit or while a panic unwinds
DropTerrain ==
    /\ terrain.state \in {"alive", "panicked"}
    /\ LET d == terrain_drop(gl, objects, terrain)
       IN  /\ gl' = d.gl
           /\ objects' = d.objects
    /\ terrain' = [terrain EXCEPT !.state = "dropped"]
    /\ result' = [op |-> "drop", outcome |-> "ok"]
    /\ calls' = <<>>
    /\ Remember
    /\ UNCHANGED <<heightfield, gui>>

Next ==
    \/ NewTerrain
    \/ Draw
    \/ ShapeTerrain
    \/ MoveCursor
    \/ HideCursor
    \/ GetHeightmapPixels
    \/ GuiDraw
    \/ DropTerrain

Spec == Init /\ [][Next]_vars

----------------------------------------------------------------------------
(* The Heightmap and Brush on their own: every constructor argument, and    *)
(* draw_on_heightmap at every cursor and brush size                         *)

\* sizes given to Heightmap::flat
FlatSizes == {512, 1000, 1024, 2048, 4096}

\* images given to Heightmap::from_image
UnitHeightmapImages ==
    { MissingImage,
      Image(1024, 1024, [s \in Samples |-> IF s = 1 THEN 25535 ELSE 0]),
      Image(2048, 2048, [s \in Samples |-> IF s = 1 THEN Max16 ELSE 40000]),
      Image(4096, 4096, Uniform(40000)),
      Image(512, 512, Uniform(0)),
      Image(1000, 1000, Uniform(0)),
      Image(2048, 1024, Uniform(0)) }

\* images given to Brush::new
UnitBrushImages ==
    { MissingImage, Image(64, 64, Uniform(40000)), Image(64, 32, Uniform(40000)) }

\* Brush.size is a public field: the footprints in world units
BrushSizes == {100, 4096}

\* normalized cursors given to draw_on_heightmap
UnitCursors ==
    { [x |-> Fin(512), y |-> Fin(512)], [x |-> Fin(0), y |-> Fin(0)],
      [x |-> Fin(FX), y |-> Fin(FX)], vec2_infinity }

Unit == terrain.state = "unit"

\* what a Heightmap constructor leaves behind
UnitBuilt(b, source) ==
    /\ gl' = b.gl
    /\ objects' = b.objects
    /\ heightfield' = b.heightfield
    /\ terrain' = IF b.outcome = "ok"
                  THEN [state |-> "unit", source |-> source,
                        heightmap |-> b.value, brush |-> NoBrush,
                        cursor |-> [x |-> Fin(512), y |-> Fin(512)],
                        terrain_size |-> 16 * 64]
                  ELSE IF b.outcome = "err" THEN [state |-> "failed"]
                  ELSE [state |-> "aborted"]

\* Heightmap::flat(size)
UnitFlat ==
    /\ terrain.state = "none"
    /\ \E size \in FlatSizes, bad \in {"none", "heightmap"}, dbg \in Builds :
          LET b == HeightmapFlat(gl, objects, heightfield, dbg, size, bad)
          IN  /\ UnitBuilt(b, "flat")
              /\ result' = [op |-> "flat", outcome |-> b.outcome, size |-> size,
                            bad |-> bad, dbg |-> dbg]
    /\ calls' = <<>>
    /\ Remember
    /\ UNCHANGED gui

\* Heightmap::from_image(path)
UnitFromImage ==
    /\ terrain.state = "none"
    /\ \E img \in UnitHeightmapImages, bad \in {"none", "heightmap"}, dbg \in Builds :
          LET b == HeightmapFromImage(gl, objects, heightfield, dbg, img, bad)
          IN  /\ UnitBuilt(b, "image")
              /\ result' = [op |-> "from_image", outcome |-> b.outcome, img |-> img,
                            bad |-> bad, dbg |-> dbg]
    /\ calls' = <<>>
    /\ Remember
    /\ UNCHANGED gui

\* Brush::new(path, size)
UnitBrushNew ==
    /\ Unit
    /\ terrain.brush.texture = 0
    /\ \E img \in UnitBrushImages, size \in BrushSizes :
          LET b == BrushNew(gl, objects, heightfield, img, size)
          IN  /\ gl' = b.gl
              /\ objects' = b.objects
              /\ terrain' = IF b.outcome = "ok" THEN [terrain EXCEPT !.brush = b.value]
                            ELSE [terrain EXCEPT !.state = "panicked"]
              /\ result' = [op |-> "brush_new", outcome |-> b.outcome, img |-> img]
    /\ calls' = <<>>
    /\ Remember
    /\ UNCHANGED <<heightfield, gui>>

\* the caller's cursor moves
UnitSetCursor ==
    /\ Unit
    /\ \E cursor \in UnitCursors :
          /\ cursor # terrain.cursor
          /\ terrain' = [terrain EXCEPT !.cursor = cursor]
    /\ result' = [op |-> "set_cursor", outcome |-> "ok"]
    /\ calls' = <<>>
    /\ Remember
    /\ UNCHANGED <<gl, objects, heightfield, gui>>

\* Heightmap::draw_on_heightmap
UnitSculpt ==
    /\ Unit
    /\ terrain.brush.texture # 0
    /\ \E delta_time \in 0..MaxDeltaTime, raise \in BOOLEAN,
          dbg \in BuildsAt(CursorInUnitSquare(terrain.cursor)),
          undef \in UnspecifiedAt(terrain.cursor) :
          LET r == draw_on_heightmap(gl, objects, heightfield, dbg, terrain.heightmap,
                                     terrain.cursor, terrain.brush, terrain.terrain_size,
                                     delta_time, raise, undef)
          IN  /\ gl' = r.gl
              /\ heightfield' = r.heightfield
              /\ calls' = r.calls
              /\ terrain' = IF r.outcome = "panic"
                            THEN [terrain EXCEPT !.state = "panicked"] ELSE terrain
              /\ result' = [op |-> "shape_terrain", outcome |-> r.outcome,
                            delta_time |-> delta_time, raise |-> raise, dbg |-> dbg]
    /\ RememberSculpt
    /\ UNCHANGED <<objects, gui>>

HeightmapNext ==
    \/ UnitFlat
    \/ UnitFromImage
    \/ UnitBrushNew
    \/ UnitSetCursor
    \/ UnitSculpt

HeightmapSpec == Init /\ [][HeightmapNext]_vars

----------------------------------------------------------------------------
(* The claims *)

\* a sculpt that ran to its end
Sculpted == result.op = "shape_terrain" /\ result.outcome = "ok"

\* C1: draw_on_heightmap leaves the blend flag, the blend factors, the blend
\* equation and the depth-test flag as they were just before the call.
C1_SculptRestoresBlendDepth ==
    [][(result'.op = "shape_terrain" /\ result'.outcome = "ok")
          => BlendDepthState(gl') = BlendDepthState(gl)]_vars

\* the objects Terrain::new, Heightmap::new and Brush::new created for a Terrain
TerrainObjects(t) ==
    {t.vao, t.texture, t.heightmap.texture, t.heightmap.fbo, t.brush.texture,
     t.shadow_map_fbo, t.shadow_map}

\* C2: after the Terrain is dropped none of the objects created at its
\* construction (height-field texture, sculpt framebuffer, brush texture,
\* shadow-map texture and framebuffer) still exists.
C2_DropReleasesAll ==
    terrain.state = "dropped"
        => \A o \in objects : o.name \notin TerrainObjects(terrain)

\* a lower that follows a raise of the same delta_time, with the same brush
\* and the same cursor on the terrain
LoweredAfterRaise ==
    /\ Sculpted /\ ~result.raise
    /\ before.raised = result.delta_time
    /\ CursorInUnitSquare(terrain.cursor)

\* C3 as stated: raise then lower with the same brush, cursor and delta_time
\* returns every texel to the value it had before the raise, saturated or not.
C3_RaiseThenLowerRestores ==
    LoweredAfterRaise => heightfield.texels = before.texels2

\* C3 as amended: raise then lower returns a texel to its prior value when the
\* raise left it below the 16-bit maximum; a texel the raise saturated ends
\* at or below its prior value.
C3_RaiseThenLowerRestoresUnsaturated ==
    LoweredAfterRaise =>
        \A s \in Samples :
            /\ before.texels[s] < Max16 => heightfield.texels[s] = before.texels2[s]
            /\ heightfield.texels[s] <= before.texels2[s]

\* a raise changed a texel without saturating it and the lower brought it back
C3_Witness ==
    /\ LoweredAfterRaise
    /\ result.delta_time > 0
    /\ \E s \in Samples :
          /\ before.texels2[s] < before.texels[s]
          /\ before.texels[s] < Max16
          /\ heightfield.texels[s] = before.texels2[s]

\* C4: a sculpt with delta_time = 0 changes no texel, raising or lowering, at
\* every cursor and brush size.
C4_ZeroDeltaTimeChangesNothing ==
    (Sculpted /\ result.delta_time = 0) => heightfield.texels = before.texels

\* a lower with delta_time = 0 under a brush that covers a texel above zero
C4_Witness ==
    /\ Sculpted /\ result.delta_time = 0 /\ ~result.raise
    /\ terrain.cursor = [x |-> Fin(512), y |-> Fin(512)]
    /\ terrain.brush.texels > 0
    /\ heightfield.texels[1] > 0

\* an image from_image has to refuse: not square, or a side that is not supported
BadDimensions(img) == img.exists /\ (img.w # img.h \/ img.w \notin SupportedSizes)

\* the objects of the Gui, the only ones before a Heightmap or Terrain is built
GuiObjects == {o \in objects : o.name \in {gui.vao, gui.vbo, gui.ebo}}

\* C5 as stated: from_image on an image that is not square or of unsupported
\* size returns an error value, before any texture or framebuffer is created.
C5_BadImageReturnsErr ==
    (result.op = "from_image" /\ BadDimensions(result.img))
        => /\ result.outcome = "err"
           /\ objects = GuiObjects

\* C5 as amended: from_image on such an image fails by a panic (a failed
\* assertion), not by a returned error, before any texture or framebuffer is
\* created: no Heightmap and no object of it exists.
C5_BadImagePanicsBeforeCreate ==
    (result.op = "from_image" /\ BadDimensions(result.img))
        => /\ result.outcome = "panic"
           /\ terrain.state = "aborted"
           /\ objects = GuiObjects
           /\ heightfield = NoHeightfield

\* from_image was given an image that is not square
C5_Witness ==
    /\ result.op = "from_image"
    /\ result.img.exists /\ result.img.w # result.img.h
    /\ result.outcome = "panic"

\* C6: flat(size) fails for every size that is not supported, so every
\* Heightmap has a supported texture_size.
C6_FlatRejectsUnsupported ==
    /\ (result.op = "flat" /\ result.size \notin SupportedSizes) => result.outcome # "ok"
    /\ Unit => terrain.heightmap.texture_size \in SupportedSizes

\* what the code does instead: flat(size) does not check its size; it fails
\* only when the heightmap program fails to build and otherwise yields
\* texture_size = size. Only from_image asserts a supported side.
FlatAcceptsAnySize ==
    /\ result.op = "flat" =>
          /\ result.outcome = (IF result.bad = "heightmap" THEN "err" ELSE "ok")
          /\ result.outcome = "ok" =>
                /\ terrain.heightmap.texture_size = result.size
                /\ heightfield.size = result.size
    /\ (Unit /\ terrain.source = "image") =>
          terrain.heightmap.texture_size \in SupportedSizes

\* a flat Heightmap of an unsupported size exists
FlatUnsupportedExists ==
    /\ Unit /\ terrain.source = "flat"
    /\ terrain.heightmap.texture_size \notin SupportedSizes
    /\ heightfield.size = terrain.heightmap.texture_size

\* C7: for every supported size S, flat(S) yields a height field of side S
\* whose S * S texels are all zero.
C7_FlatIsZero ==
    (result.op = "flat" /\ result.outcome = "ok" /\ result.size \in SupportedSizes)
        => /\ terrain.heightmap.texture_size = result.size
           /\ heightfield.size = result.size
           /\ heightfield.len = result.size * result.size
           /\ \A s \in Samples : heightfield.texels[s] = 0
           /\ heightfield.name = terrain.heightmap.texture

\* flat(4096) built its Heightmap
C7_Witness ==
    /\ result.op = "flat" /\ result.outcome = "ok" /\ result.size = 4096
    /\ Unit

\* an image that is missing or not square
Unusable(img) == ~img.exists \/ img.w # img.h

\* the outcome of Terrain::new by its first failing step, in the order of the code
ConstructionOutcome(r) ==
    IF Unusable(r.ground_path) THEN "panic"
    ELSE IF ~r.start_flat /\ ~r.heightmap_path.exists THEN "err"
    ELSE IF ~r.start_flat /\ BadDimensions(r.heightmap_path) THEN "panic"
    ELSE IF r.bad = "heightmap" THEN "err"
    ELSE IF Unusable(r.brush_path) THEN "panic"
    ELSE IF r.bad # "none" THEN "err"
    ELSE "ok"

\* C8 as stated: Terrain::new reports every sub-resource failure as an error
\* value, never as an abort; a missing or non-square brush image gives Err.
C8_FailuresAreErr ==
    (result.op = "new" /\ result.center = [x |-> 0, y |-> 0])
        => /\ result.outcome # "panic"
           /\ Unusable(result.brush_path) => result.outcome = "err"

\* C8 as amended: Terrain::new returns Err only for a heightmap image that
\* cannot be opened and for a program that fails to build; a missing or
\* non-square ground or brush image and a heightmap image that is not square or
\* of unsupported size abort it by a panic.
C8_FailuresByKind ==
    (result.op = "new" /\ result.center = [x |-> 0, y |-> 0])
        => /\ result.outcome = ConstructionOutcome(result)
           /\ result.outcome = "err" =>
                 \/ ~result.start_flat /\ ~result.heightmap_path.exists
                 \/ result.bad # "none"
           /\ (Unusable(result.brush_path) /\ result.outcome # "err")
                 => result.outcome = "panic"

\* Terrain::new reached Brush::new with a brush image that is missing
C8_Witness ==
    /\ result.op = "new" /\ result.center = [x |-> 0, y |-> 0]
    /\ ~result.brush_path.exists
    /\ ~Unusable(result.ground_path) /\ result.start_flat /\ result.bad = "none"
    /\ result.outcome = "panic"
    /\ terrain.state = "aborted"

\* shape_terrain was called while the cursor was the hidden sentinel
SculptedHidden == result.op = "shape_terrain" /\ terrain.cursor = vec2_infinity

\* C9: shape_terrain with the hidden cursor completes without a failed
\* assertion and changes no texel.
C9_HiddenSculptIsNoOp ==
    SculptedHidden => (result.outcome = "ok" /\ heightfield.texels = before.texels)

\* what the code does instead: shape_terrain hands draw_on_heightmap a cursor
\* of +infinity; with debug assertions the call panics at the cursor assertion
\* before any draw call, without them the draw is issued with that cursor.
HiddenSculptAsserts ==
    SculptedHidden =>
        IF result.dbg
        THEN /\ result.outcome = "panic"
             /\ terrain.state = "panicked"
             /\ calls = <<>>
             /\ heightfield.texels = before.texels
        ELSE /\ result.outcome = "ok"
             /\ Len(calls) = 1

\* a debug build sculpted with the hidden cursor
HiddenSculptPanicked ==
    /\ SculptedHidden /\ result.dbg
    /\ result.outcome = "panic"
    /\ result.delta_time > 0

\* C10: move_cursor with a ray that misses the AABB hides the cursor and
\* returns false, whatever the cursor was; hide_cursor sets the same sentinel.
C10_MissHidesCursor ==
    /\ (result.op = "move_cursor" /\ ~hits_aabb(result.ray, terrain.aabb).some)
          => (terrain.cursor = vec2_infinity /\ result.ret = FALSE)
    /\ result.op = "hide_cursor" => terrain.cursor = vec2_infinity

\* a ray missed the AABB while the cursor was on the terrain
C10_Witness ==
    /\ result.op = "move_cursor"
    /\ ~hits_aabb(result.ray, terrain.aabb).some
    /\ ~result.was_hidden
    /\ terrain.cursor = vec2_infinity

\* the far point of the last move_cursor's ray on the AABB, exactly
FarPoint == get_point_at(result.ray, hits_aabb(result.ray, terrain.aabb).t_max)

\* that ray meets the AABB and leaves it more than 0.001 above the floor
LeavesAboveFloor ==
    /\ hits_aabb(result.ray, terrain.aabb).some
    /\ (FarPoint.y - terrain.aabb.min.y) * 1000 > 1

\* C11: move_cursor accepts a ray only when the point at t_max is within 0.001
\* of aabb.min.y in height; a ray whose far intersection is on a side or top
\* face more than 0.001 above aabb.min.y is rejected: it returns false and the
\* cursor is the hidden sentinel.
C11_FarHitAboveFloorRejected ==
    result.op = "move_cursor" =>
        /\ result.ret => /\ hits_aabb(result.ray, terrain.aabb).some
                         /\ (FarPoint.y - terrain.aabb.min.y) * 1000 <= 1
        /\ LeavesAboveFloor => (result.ret = FALSE /\ terrain.cursor = vec2_infinity)

\* a ray that enters the box and leaves by a side face, while the cursor was on
\* the terrain
C11_Witness ==
    /\ result.op = "move_cursor"
    /\ LeavesAboveFloor
    /\ FarPoint.y < terrain.aabb.max.y
    /\ ~result.was_hidden
    /\ result.ret = FALSE /\ terrain.cursor = vec2_infinity

\* a finite cursor inside the AABB's XZ bounds
CursorInBounds ==
    /\ ~terrain.cursor.x.inf /\ ~terrain.cursor.y.inf
    /\ terrain.aabb.min.x <= terrain.cursor.x.v /\ terrain.cursor.x.v <= terrain.aabb.max.x
    /\ terrain.aabb.min.z <= terrain.cursor.y.v /\ terrain.cursor.y.v <= terrain.aabb.max.z

\* C12: whenever move_cursor returns true the stored cursor is within the
\* AABB's XZ bounds, also when the computed point lies outside them.
C12_AcceptedCursorClamped ==
    (result.op = "move_cursor" /\ result.ret) => CursorInBounds

\* move_cursor accepted a point that overshoots the box on both axes
C12_Witness ==
    /\ result.op = "move_cursor" /\ result.ret
    /\ result.point.x < terrain.aabb.min.x
    /\ result.point.z < terrain.aabb.min.z
    /\ terrain.cursor = [x |-> Fin(terrain.aabb.min.x), y |-> Fin(terrain.aabb.min.z)]

\* the operations of the Terrain that are not a sculpt
NotSculpt == {"draw", "move_cursor", "hide_cursor", "get_heightmap_pixels"}

\* C13: the height field is changed only by sculpt: draw, move_cursor,
\* hide_cursor and get_heightmap_pixels leave every texel and the side length
\* as they were, in any interleaving with sculpts.
C13_OnlySculptChangesHeightfield ==
    [][result'.op \in NotSculpt => heightfield' = heightfield]_vars

\* a draw after a sculpt left the two followed texels different
C13_Witness ==
    /\ result.op = "draw"
    /\ heightfield.texels[1] # heightfield.texels[2]
    /\ heightfield.texels = before.texels

\* C14: get_heightmap_pixels returns (bytes, side) where side is the height
\* field's side and bytes has side * side * 2 bytes, for every supported side
\* and after any number of sculpts.
C14_ReadbackLength ==
    result.op = "get_heightmap_pixels" =>
        /\ result.ret.side = heightfield.size
        /\ result.ret.bytes = heightfield.size * heightfield.size * 2
        /\ result.ret.bytes = heightfield.len * 2
        /\ result.ret.texels = heightfield.texels

\* a readback of a 2048 x 2048 height field that a sculpt has lowered
C14_Witness ==
    /\ result.op = "get_heightmap_pixels"
    /\ result.ret.side = 2048 /\ result.ret.bytes = 8388608
    /\ \E s \in Samples : heightfield.texels[s] < Max16

\* C15: within a draw the shadow pass comes before the main pass: the shadow
\* draw is issued with the shadow framebuffer bound, the shadow map's viewport
\* and the depth cleared; the main draw is issued with the default framebuffer
\* and the window's viewport; draw ends with the default framebuffer bound.
C15_ShadowPassThenMainPass ==
    result.op = "draw" =>
        /\ Len(calls) = 3
        /\ calls[1].call = "Clear"
        /\ calls[1].gl.framebuffer = terrain.shadow_map_fbo
        /\ calls[2].call = "DrawArraysInstanced"
        /\ calls[2].gl.framebuffer = terrain.shadow_map_fbo
        /\ calls[2].gl.viewport = [kind |-> "px", w |-> terrain.shadow_map_size,
                                   h |-> terrain.shadow_map_size]
        /\ calls[2].gl.program = terrain.shadow_map_shader
        /\ calls[3].call = "DrawArraysInstanced"
        /\ calls[3].gl.framebuffer = 0
        /\ calls[3].gl.viewport = WindowViewport
        /\ calls[3].gl.program = terrain.shader
        /\ gl.framebuffer = 0 /\ gl.viewport = WindowViewport

\* a draw whose shadow pass ran on the shadow map's framebuffer, after a
\* Gui::draw drew a mesh
C15_Witness ==
    /\ result.op = "draw"
    /\ Len(calls) = 3
    /\ terrain.shadow_map_fbo # 0
    /\ calls[2].gl.framebuffer = terrain.shadow_map_fbo
    /\ calls[2].gl.blend_dst_rgb = "ONE_MINUS_SRC_ALPHA"

\* C16: in a draw both passes issue an instanced draw of num_patches *
\* num_patches instances, num_patches being the Terrain's field, and both use
\* the same tess_level.
C16_InstancesArePatchesSquared ==
    result.op = "draw" =>
        \A i \in {2, 3} :
            /\ calls[i].call = "DrawArraysInstanced"
            /\ calls[i].instances = terrain.num_patches * terrain.num_patches
            /\ calls[i].tess_level = terrain.tess_level

\* a draw of the 64 x 64 patches
C16_Witness ==
    /\ result.op = "draw"
    /\ Len(calls) = 3
    /\ terrain.num_patches = 64
    /\ calls[2].instances = 4096 /\ calls[3].instances = 4096

\* the bindings Terrain::draw gives the texture units
DrawUnits ==
    [u \in 0..3 |-> CASE u = 0 -> terrain.texture
                      [] u = 1 -> terrain.heightmap.texture
                      [] u = 2 -> terrain.brush.texture
                      [] OTHER -> terrain.shadow_map]

\* C17: at the shadow-pass and main-pass draw calls of Terrain::draw the units
\* 0, 1, 2, 3 are bound to the ground texture, the heightmap texture, the
\* brush texture and the shadow map, whatever sculpts and GUI draws ran before.
C17_UnitsBoundAtDraw ==
    result.op = "draw" =>
        \A i \in {2, 3} : calls[i].gl.texture_2d = DrawUnits

\* a draw that found unit 0 bound to the GUI's texture
C17_Witness ==
    /\ result.op = "draw"
    /\ gui.egui_texture # 0
    /\ result.unit0 = gui.egui_texture
    /\ calls[3].gl.texture_2d[0] = terrain.texture

\* C18: after construction and any sequence of move_cursor and hide_cursor the
\* cursor is the hidden sentinel or a point inside the AABB's XZ bounds; when
\* it is not hidden the normalized cursor of shape_terrain is in [0, 1] on
\* both axes and the debug assertions of draw_on_heightmap hold.
C18_CursorHiddenOrInBounds ==
    /\ terrain.state \in {"alive", "panicked", "dropped"} =>
          \/ terrain.cursor = vec2_infinity
          \/ CursorInBounds /\ CursorInUnitSquare(NormalizedCursor(terrain))
    /\ (result.op = "shape_terrain" /\ terrain.cursor # vec2_infinity)
          => result.outcome = "ok"

\* a sculpt with the cursor on the corner of the terrain, where the normalized
\* cursor is 0 on both axes
C18_Witness ==
    /\ Sculpted
    /\ terrain.cursor = [x |-> Fin(terrain.aabb.min.x), y |-> Fin(terrain.aabb.min.z)]
    /\ NormalizedCursor(terrain) = [x |-> Fin(0), y |-> Fin(0)]

\* C19: at the draw call inside a sculpt, whatever ran before, the heightmap's
\* framebuffer is bound, the viewport is texture_size x texture_size, blending
\* is enabled with the factors ONE / ONE, the depth test is disabled and the
\* blend equation is FUNC_ADD for a raise and FUNC_REVERSE_SUBTRACT for a
\* lower; outside a sculpt the blend equation is FUNC_ADD.
C19_SculptDrawCallState ==
    /\ Sculpted =>
          /\ Len(calls) = 1
          /\ calls[1].call = "DrawArrays"
          /\ calls[1].gl.framebuffer = terrain.heightmap.fbo
          /\ calls[1].gl.viewport = [kind |-> "px", w |-> terrain.heightmap.texture_size,
                                     h |-> terrain.heightmap.texture_size]
          /\ calls[1].gl.BLEND /\ ~calls[1].gl.DEPTH_TEST
          /\ calls[1].gl.blend_src_rgb = "ONE" /\ calls[1].gl.blend_dst_rgb = "ONE"
          /\ calls[1].gl.blend_src_alpha = "ONE" /\ calls[1].gl.blend_dst_alpha = "ONE"
          /\ calls[1].gl.blend_equation =
                (IF result.raise THEN "FUNC_ADD" ELSE "FUNC_REVERSE_SUBTRACT")
    /\ gl.blend_equation = "FUNC_ADD"
    /\ \A i \in 1..Len(calls) :
          calls[i].call # "DrawArrays" => calls[i].gl.blend_equation = "FUNC_ADD"

\* a lower issued after Gui::draw left its BlendFuncSeparate factors
C19_Witness ==
    /\ Sculpted /\ ~result.raise
    /\ gui.egui_texture # 0
    /\ calls[1].gl.blend_equation = "FUNC_REVERSE_SUBTRACT"
    /\ before.texels # heightfield.texels

====
